---------------------------- MODULE Spec2Model ----------------------------
(***************************************************************************)
(* Campaign / RSVP transactional state machine of nexo_ppeam.              *)
(*                                                                         *)
(* The store holds one document per campaign and, under it, one RSVP       *)
(* document per contact (document id = contact_id).  rsvp_campaign runs    *)
(* its body _tx as a Firestore transaction: the reads of one attempt are   *)
(* suspension points at which other requests run, the writes are buffered  *)
(* and applied together at commit, and the commit succeeds only when no    *)
(* document the attempt read was written since it was read; otherwise the  *)
(* attempt is rolled back and _tx is run again.  rsvp_campaign is a        *)
(* blocking call, so the calls in flight together are those of the worker  *)
(* processes that share the store.                                         *)
(***************************************************************************)
EXTENDS Integers, Sequences, FiniteSets, Bags, TLC

\* ------------------------------------------------------------------ bounds
NumProcs      == 2      \* rsvp_campaign calls in flight at the same time
MaxCalls      == 3      \* rsvp_campaign calls in one behaviour
MaxCap        == 2      \* largest capacity tried (CampaignIn allows up to 1000)
NumTasks      == 1      \* request tasks that dispatch events in one behaviour

\* db.transaction() is built with the client's default max_attempts
MAX_ATTEMPTS  == 5

\* the campaign document id (col.document() draws it) and the contact ids
CampaignIds == {"c1"}
Recipients  == {"r1", "r2", "r3"}
Responses   == {"yes", "no"}

\* CampaignIn.capacity: int = Field(7, ge=1, le=1000)
CapacityRange_Unvalidated == (0 - 1)..MaxCap
CapacityRange == 1..MaxCap

\* CampaignIn.coordinator_id: a contact id
Coordinators == {"r1"}

\* the WebSocket objects of the /ws/{contact_id} requests, the contact ids
\* they connect as, and the request tasks
Conns      == {"w1", "w2"}
WsContacts == {"r1", "r2"}
Tasks      == 1..NumTasks

\* the contact_ids arguments of broadcast_to_contacts that are tried
\* BroadcastBody.recipients (absent or empty: the filters decide) and what
\* find_contact_ids_by_filters finds for the filters of a request
RecipientInputs == {<<>>, <<"r2">>, <<"r1", "r2", "r1">>}
FilterResults   == {<<>>, <<"r1", "r2">>}

\* RSVPIn.response as the client sends it
RawResponses == {"yes", "SI", "no", "maybe"}

\* the connections of the process in the specification of the endpoints
ApiConns == {"w1"}

BroadcastInputs == {<<"r1", "r2">>, <<"r1", "r2", "r1">>}

VARIABLES
    campaigns,   \* campaign_id -> campaign document, or NoDoc
    rsvps,       \* campaign_id -> contact_id -> RSVP document, or NoDoc
    camp_time,   \* campaign_id -> update time of the campaign document
    rsvp_time,   \* campaign_id -> contact_id -> update time of the RSVP document
    tx,          \* the rsvp_campaign calls in flight (a bag of attempts)
    calls,       \* number of rsvp_campaign calls begun
    history,     \* the calls that returned or raised, in the order they ended
    active,      \* manager.active: contact_id -> set of its WebSockets
    lock,        \* manager._lock: Unlocked, or HeldBy the task inside async with
    ep,          \* WebSocket -> where its ws_contact endpoint is
    owner,       \* WebSocket -> the contact_id of its /ws/{contact_id} path
    transport,   \* WebSocket -> state of the client's side of the connection
    unreg,       \* WebSocket -> the callers whose disconnect(.., ws) completed
    tasks        \* request task -> state of its dispatch (send_personal_message,
                 \* broadcast_to_contacts or rsvp_endpoint)

storeVars == <<campaigns, rsvps, camp_time, rsvp_time, tx, calls, history>>
wsVars    == <<active, lock, ep, owner, transport, unreg, tasks>>
vars == <<campaigns, rsvps, camp_time, rsvp_time, tx, calls, history,
          active, lock, ep, owner, transport, unreg, tasks>>

\* ----------------------------------------------------------------- helpers
Max(a, b) == IF a >= b THEN a ELSE b

\* a snapshot of a document that does not exist (snap.exists is False)
NoDoc == [exists |-> FALSE]

\* transaction.update(ref, fields): the named fields replace those of the document
ApplyUpdate_Lost(doc, fields) == doc
ApplyUpdate(doc, fields) ==
    [f \in DOMAIN doc |-> IF f \in DOMAIN fields THEN fields[f] ELSE doc[f]]

NoWrite == [written |-> FALSE]

\* the bag holding one attempt
One(t) == SetToBag({t})

\* --------------------------------------------------------- create_campaign
NewCampaign(cap, coord) ==
    [exists         |-> TRUE,
     capacity       |-> cap,
     coordinator_id |-> coord,
     status         |-> "open",
     accepted_count |-> 0]

CreateCampaign(c, cap, coord) ==
    /\ ~campaigns[c].exists
    /\ campaigns' = [campaigns EXCEPT ![c] = NewCampaign(cap, coord)]
    /\ camp_time' = [camp_time EXCEPT ![c] = @ + 1]
    /\ UNCHANGED <<rsvps, rsvp_time, tx, calls, history>>

\* ------------------------------------------------------ rsvp_campaign._tx
\* if status != "open"
IsOpen_Always(status) == TRUE
IsOpen(status) == status = "open"

\* if prev and prev.get("response") == "yes"
AlreadyYes_Never(prev) == FALSE
AlreadyYes(prev) == prev.exists /\ prev.response = "yes"

\* if accepted_count >= capacity
IsFull(accepted_count, capacity) == accepted_count >= capacity

\* if new_count >= capacity: update_doc["status"] = "closed"
AutoClose_Late(new_count, capacity) == new_count > capacity
AutoClose(new_count, capacity) == new_count >= capacity

\* max(0, capacity - accepted_count)
RemainingSlots_OffByOne(capacity, accepted_count) ==
    Max(0, capacity - accepted_count - 1)
RemainingSlots(capacity, accepted_count) == Max(0, capacity - accepted_count)

\* transaction.set(rsvp_ref, {"contact_id", "response", "at"}, merge=True)
RsvpDoc_KeepYes(contact_id, response) ==
    [exists |-> TRUE, contact_id |-> contact_id, response |-> "yes"]
RsvpDoc(contact_id, response) ==
    [exists |-> TRUE, contact_id |-> contact_id, response |-> response]

\* One run of _tx over the snapshots it read: the dict it returns and the
\* writes it buffers (camp_update for transaction.update(camp_ref, ...),
\* rsvp_set for transaction.set(rsvp_ref, ...)).  prev is only looked at
\* when the campaign is open.
TxBody(camp, prev, contact_id, response) ==
    LET status         == camp.status
        capacity       == camp.capacity
        accepted_count == camp.accepted_count
        new_count      == accepted_count + 1
    IN  IF ~IsOpen(status) THEN
            [accepted        |-> FALSE,
             remaining_slots |-> RemainingSlots(capacity, accepted_count),
             status          |-> status,
             camp_update     |-> NoWrite,
             rsvp_set        |-> NoWrite]
        ELSE IF response = "yes" THEN
            IF AlreadyYes(prev) THEN
                [accepted        |-> TRUE,
                 remaining_slots |-> RemainingSlots(capacity, accepted_count),
                 status          |-> status,
                 camp_update     |-> NoWrite,
                 rsvp_set        |-> NoWrite]
            ELSE IF IsFull(accepted_count, capacity) THEN
                [accepted        |-> FALSE,
                 remaining_slots |-> 0,
                 status          |-> "closed",
                 camp_update     |-> [status |-> "closed"],
                 rsvp_set        |-> NoWrite]
            ELSE
                [accepted        |-> TRUE,
                 remaining_slots |-> RemainingSlots(capacity, new_count),
                 status          |-> IF AutoClose(new_count, capacity)
                                     THEN "closed" ELSE "open",
                 camp_update     |-> IF AutoClose(new_count, capacity)
                                     THEN [accepted_count |-> new_count,
                                           status         |-> "closed"]
                                     ELSE [accepted_count |-> new_count],
                 rsvp_set        |-> RsvpDoc(contact_id, "yes")]
        ELSE
            [accepted        |-> FALSE,
             remaining_slots |-> RemainingSlots(capacity, accepted_count),
             status          |-> status,
             camp_update     |-> NoWrite,
             rsvp_set        |-> RsvpDoc(contact_id, "no")]

Written(w) == w # NoWrite

\* ---------------------------------------------------------- rsvp_campaign
\* A request starts rsvp_campaign(campaign_id, contact_id, response): the
\* transaction object is created and the first attempt of _tx begins.
Attempt(c, r, x, n) ==
    [pc          |-> "read_camp",
     campaign_id |-> c,
     contact_id  |-> r,
     response    |-> x,
     attempt     |-> n,
     camp_snap   |-> NoDoc,
     camp_read   |-> 0,
     rsvp_got    |-> FALSE,
     rsvp_snap   |-> NoDoc,
     rsvp_read   |-> 0]

\* what a call leaves in the log when it ends
Entry(t, error, out, pre, post, rsvp_pre, rsvp_post) ==
    [campaign_id     |-> t.campaign_id,
     contact_id      |-> t.contact_id,
     response        |-> t.response,
     error           |-> error,
     accepted        |-> out.accepted,
     remaining_slots |-> out.remaining_slots,
     status          |-> out.status,
     attempts        |-> t.attempt,
     pre             |-> pre,
     post            |-> post,
     rsvp_pre        |-> rsvp_pre,
     rsvp_post       |-> rsvp_post]

NoResult == [accepted |-> FALSE, remaining_slots |-> 0, status |-> "none"]

Raised(t, error) ==
    Entry(t, error, NoResult,
          campaigns[t.campaign_id], campaigns[t.campaign_id],
          rsvps[t.campaign_id][t.contact_id], rsvps[t.campaign_id][t.contact_id])

\* camp_snap = camp_ref.get(transaction=transaction), the first statement of
\* _tx: attempt t reads the campaign document, raises when it does not
\* exist, and otherwise goes on to the RSVP read (open) or to its return.
FirstRead(old, t) ==
    LET c == t.campaign_id
    IN  IF ~campaigns[c].exists THEN
            \* raise ValueError("campaign_not_found"): nothing was written
            /\ tx' = tx (-) old
            /\ history' = Append(history, Raised(t, "campaign_not_found"))
        ELSE
            /\ tx' = (tx (-) old) (+) One(
                        [t EXCEPT !.camp_snap = campaigns[c],
                                  !.camp_read = camp_time[c],
                                  !.pc = IF IsOpen(campaigns[c].status)
                                         THEN "read_rsvp" ELSE "commit"])
            /\ UNCHANGED history

\* A request calls rsvp_campaign(campaign_id, contact_id, response): the
\* transaction is created and the first attempt of _tx runs up to its first
\* read of the store.
Begin(c, r, x) ==
    /\ BagCardinality(tx) < NumProcs
    /\ calls < MaxCalls
    /\ calls' = calls + 1
    /\ FirstRead(EmptyBag, Attempt(c, r, x, 1))
    /\ UNCHANGED <<campaigns, rsvps, camp_time, rsvp_time>>

\* _tx runs again after a refused commit
Rerun(t) ==
    /\ BagIn(t, tx)
    /\ t.pc = "read_camp"
    /\ FirstRead(One(t), t)
    /\ UNCHANGED <<campaigns, rsvps, camp_time, rsvp_time, calls>>

\* rsvp_snap = rsvp_ref.get(transaction=transaction)
ReadRsvp(t) ==
    LET c == t.campaign_id
        r == t.contact_id
    IN  /\ BagIn(t, tx)
        /\ t.pc = "read_rsvp"
        /\ tx' = (tx (-) One(t)) (+) One(
                    [t EXCEPT !.rsvp_got  = TRUE,
                              !.rsvp_snap = rsvps[c][r],
                              !.rsvp_read = rsvp_time[c][r],
                              !.pc = "commit"])
        /\ UNCHANGED <<campaigns, rsvps, camp_time, rsvp_time, calls, history>>

\* The commit of @firestore.transactional: no document this attempt read
\* has been written since it was read.
ReadsUnchanged_NoCheck(t) == TRUE
ReadsUnchanged(t) ==
    /\ camp_time[t.campaign_id] = t.camp_read
    /\ t.rsvp_got => rsvp_time[t.campaign_id][t.contact_id] = t.rsvp_read

\* _tx returned and the buffered writes are applied together; rsvp_campaign
\* logs the call and returns the result.
Commit(t) ==
    LET c   == t.campaign_id
        r   == t.contact_id
        out == TxBody(t.camp_snap, t.rsvp_snap, r, t.response)
        camp_after == ApplyUpdate(campaigns[c], out.camp_update)
        rsvp_after == IF Written(out.rsvp_set) THEN out.rsvp_set ELSE rsvps[c][r]
    IN  /\ BagIn(t, tx)
        /\ t.pc = "commit"
        /\ ReadsUnchanged(t)
        /\ campaigns' = [campaigns EXCEPT ![c] = camp_after]
        /\ camp_time' = [camp_time EXCEPT ![c] =
                            IF Written(out.camp_update) THEN @ + 1 ELSE @]
        /\ rsvps' = [rsvps EXCEPT ![c][r] = rsvp_after]
        /\ rsvp_time' = [rsvp_time EXCEPT ![c][r] =
                            IF Written(out.rsvp_set) THEN @ + 1 ELSE @]
        /\ tx' = tx (-) One(t)
        /\ history' = Append(history,
                             Entry(t, "none", out, campaigns[c], camp_after,
                                   rsvps[c][r], rsvp_after))
        /\ UNCHANGED calls

\* The commit is refused: the attempt is rolled back and _tx runs again,
\* until the transaction has used up its attempts.
Conflict(t) ==
        /\ BagIn(t, tx)
        /\ t.pc = "commit"
        /\ ~ReadsUnchanged(t)
        /\ IF t.attempt < MAX_ATTEMPTS THEN
               /\ tx' = (tx (-) One(t)) (+) One(Attempt(t.campaign_id, t.contact_id,
                                                  t.response, t.attempt + 1))
               /\ UNCHANGED history
           ELSE
               /\ tx' = tx (-) One(t)
               /\ history' = Append(history, Raised(t, "aborted"))
        /\ UNCHANGED <<campaigns, rsvps, camp_time, rsvp_time, calls>>

\* The store is unavailable: a read or the commit of the attempt raises, the
\* transaction is rolled back with nothing written and the error leaves
\* rsvp_campaign.
Unavailable(t) ==
    /\ BagIn(t, tx)
    /\ tx' = tx (-) One(t)
    /\ history' = Append(history, Raised(t, "unavailable"))
    /\ UNCHANGED <<campaigns, rsvps, camp_time, rsvp_time, calls>>

\* ------------------------------------------------------ ConnectionManager
\* self._lock: free, or held by the task that is inside async with self._lock
Unlocked == <<>>
HeldBy(d) == <<d>>

\* self.active.get(contact_id, set())
Sockets(act, cid) == IF cid \in DOMAIN act THEN act[cid] ELSE {}

\* connect: self.active.setdefault(contact_id, set()).add(ws)
Connect_Overwrite(act, cid, ws) ==
    [k \in DOMAIN act \cup {cid} |-> IF k = cid THEN {ws} ELSE act[k]]
Connect(act, cid, ws) ==
    [k \in DOMAIN act \cup {cid} |->
        IF k = cid THEN Sockets(act, cid) \cup {ws} ELSE act[k]]

\* disconnect: the socket leaves the set of contact_id, and the entry of
\* contact_id leaves the map when its set is left empty
Disconnect_DropEntry(act, cid, ws) == [k \in DOMAIN act \ {cid} |-> act[k]]
Disconnect_Skipped(act, cid, ws) == act
Disconnect_KeepEntry(act, cid, ws) ==
    IF cid \in DOMAIN act /\ ws \in act[cid]
    THEN [act EXCEPT ![cid] = @ \ {ws}]
    ELSE act
Disconnect(act, cid, ws) ==
    IF cid \in DOMAIN act /\ ws \in act[cid]
    THEN IF act[cid] \ {ws} = {}
         THEN [k \in DOMAIN act \ {cid} |-> act[k]]
         ELSE [act EXCEPT ![cid] = @ \ {ws}]
    ELSE act

\* the caller of disconnect in ws_contact, and the n-th send_personal_message
\* call of task d
Endpoint == <<0, 0>>
Caller(d, n) == <<d, n>>

\* ------------------------------------------------------------- ws_contact
\* A client opens /ws/{contact_id}: ws_contact awaits manager.connect, which
\* awaits ws.accept().
Accept_Again(ws) == TRUE
Accept_Once(ws) == ep[ws] = "new"

Accept(ws, cid) ==
    /\ Accept_Once(ws)
    /\ ep' = [ep EXCEPT ![ws] = "accepting"]
    /\ owner' = [owner EXCEPT ![ws] = cid]
    /\ UNCHANGED <<active, lock, transport, unreg, tasks>>

\* the handshake is done: connect adds the socket under the lock and
\* ws_contact enters its receive loop
Register(ws) ==
    /\ ep[ws] = "accepting"
    /\ lock = Unlocked
    /\ active' = Connect(active, owner[ws], ws)
    /\ ep' = [ep EXCEPT ![ws] = "open"]
    /\ UNCHANGED <<lock, owner, transport, unreg, tasks>>

\* the client closes the connection
TransportClose(ws) ==
    /\ ep[ws] \in {"accepting", "open"}
    /\ transport[ws] # "down"
    /\ transport' = [transport EXCEPT ![ws] = "down"]
    /\ UNCHANGED <<active, lock, ep, owner, unreg, tasks>>

\* the client stops reading: a send to it does not complete
Hang(ws) ==
    /\ ep[ws] = "open"
    /\ transport[ws] = "up"
    /\ transport' = [transport EXCEPT ![ws] = "hung"]
    /\ UNCHANGED <<active, lock, ep, owner, unreg, tasks>>

\* receive_text raises WebSocketDisconnect: ws_contact awaits
\* manager.disconnect(contact_id, websocket) and ends
EndpointDisconnect(ws) ==
    /\ ep[ws] = "open"
    /\ transport[ws] = "down"
    /\ lock = Unlocked
    /\ active' = Disconnect(active, owner[ws], ws)
    /\ unreg' = [unreg EXCEPT ![ws] = @ \cup {Endpoint}]
    /\ ep' = [ep EXCEPT ![ws] = "gone"]
    /\ UNCHANGED <<lock, owner, transport, tasks>>

\* -------------------------------- send_personal_message, broadcast_to_contacts
\* for cid in set(contact_ids)
Dedup_Keep(ids) == [c \in {ids[i] : i \in 1..Len(ids)} |->
                        Cardinality({i \in 1..Len(ids) : ids[i] = c})]
Dedup(ids) == SetToBag({ids[i] : i \in 1..Len(ids)})

\* a task that is to call send_personal_message for the contact ids of todo
NewTask(kind, event, ids, todo) ==
    [pc       |-> "next",
     kind     |-> kind,
     event    |-> event,
     ids      |-> ids,
     todo     |-> todo,
     cid      |-> "none",
     snap     |-> {},
     pending  |-> {},
     cur      |-> "none",
     ok       |-> 0,
     good     |-> {},
     bad      |-> {},
     ok_total |-> 0,
     log      |-> <<>>,
     campaign_id |-> "none",
     contact_id  |-> "none",
     response    |-> "none",
     error       |-> "none",
     res         |-> NoResult,
     dry_run     |-> FALSE,
     count       |-> 0,
     message_ids |-> <<>>,
     messages    |-> <<>>]

\* a request that has not been received yet
IdleTask == [NewTask("none", "none", <<>>, EmptyBag) EXCEPT !.pc = "idle"]

\* the requests are numbered in the order in which they start
Fresh(d) ==
    /\ tasks[d].pc = "idle"
    /\ \A e \in Tasks : e < d => tasks[e].pc # "idle"

\* a request calls manager.send_personal_message(contact_id, payload)
StartSend(d, cid) ==
    /\ Fresh(d)
    /\ tasks' = [tasks EXCEPT ![d] = NewTask("send", "message", <<cid>>, One(cid))]
    /\ UNCHANGED <<active, lock, ep, owner, transport, unreg>>

\* a request calls manager.broadcast_to_contacts(contact_ids, payload)
StartBroadcast(d, ids) ==
    /\ Fresh(d)
    /\ tasks' = [tasks EXCEPT ![d] =
                    NewTask("broadcast", "campaign_broadcast", ids, Dedup(ids))]
    /\ UNCHANGED <<active, lock, ep, owner, transport, unreg>>

\* send_personal_message returns ok: the caller adds it up and goes on to
\* its next call; rsvp_endpoint, after the rsvp_result of the responder,
\* reads the campaign and notifies its coordinator.
Returned_Call(t) ==
    [cid |-> t.cid, event |-> t.event, snap |-> t.snap,
     good |-> t.good, bad |-> t.bad, ok |-> t.ok]

EndCall(t) ==
    LET u == [t EXCEPT !.log = Append(@, Returned_Call(t)),
                       !.ok_total = @ + t.ok,
                       !.cur = "none"]
    IN  IF u.todo # EmptyBag THEN [u EXCEPT !.pc = "next"]
        ELSE IF u.kind = "rsvp" /\ u.event = "rsvp_result"
                /\ campaigns[u.campaign_id].exists
        THEN [u EXCEPT !.pc = "next",
                       !.event = "rsvp_update",
                       !.todo = One(campaigns[u.campaign_id].coordinator_id)]
        ELSE [u EXCEPT !.pc = "done"]

\* the socket the loop sends to next, or the return of the call
NextSocket(d, t) ==
    IF t.pending = {} THEN tasks' = [tasks EXCEPT ![d] = EndCall(t)]
    ELSE \E ws \in t.pending :
             tasks' = [tasks EXCEPT ![d] = [t EXCEPT !.pc = "in_send",
                                                     !.cur = ws,
                                                     !.pending = @ \ {ws}]]

\* async with self._lock: sockets = list(...); the lock is released before
\* the loop over the sockets
LockAfterSnapshot_Held(d) == HeldBy(d)
LockAfterSnapshot(d) == Unlocked

\* send_personal_message(cid, payload) is entered: the snapshot of the
\* sockets of cid is taken under the lock and the loop sends to the first
Snapshot(d, cid) ==
    LET t == tasks[d]
        sockets == Sockets(active, cid)
    IN  /\ t.pc = "next"
        /\ BagIn(cid, t.todo)
        /\ lock = Unlocked
        /\ lock' = LockAfterSnapshot(d)
        /\ NextSocket(d, [t EXCEPT !.todo = @ (-) One(cid),
                                   !.cid = cid,
                                   !.snap = sockets,
                                   !.pending = sockets,
                                   !.ok = 0,
                                   !.good = {},
                                   !.bad = {}])
        /\ UNCHANGED <<active, ep, owner, transport, unreg>>

\* await ws.send_json(payload) returns: ok += 1
SendOk(d) ==
    LET t == tasks[d]
    IN  /\ t.pc = "in_send"
        /\ transport[t.cur] # "hung"
        /\ NextSocket(d, [t EXCEPT !.ok = @ + 1, !.good = @ \cup {t.cur}])
        /\ UNCHANGED <<active, lock, ep, owner, transport, unreg>>

\* except Exception: the error of the send is caught, and the loop goes on
\* with the next socket once the failed one is disconnected
OnSendError_Raised(t) ==
    [t EXCEPT !.bad = @ \cup {t.cur}, !.error = "send_failed",
              !.pending = {}, !.todo = EmptyBag]
OnSendError(t) == [t EXCEPT !.bad = @ \cup {t.cur}]

\* await ws.send_json(payload) raises on the closed connection:
\* await self.disconnect(contact_id, ws)
SendFail(d) ==
    LET t == tasks[d]
    IN  /\ t.pc = "in_send"
        /\ transport[t.cur] = "down"
        /\ lock = Unlocked
        /\ active' = Disconnect(active, t.cid, t.cur)
        /\ unreg' = [unreg EXCEPT ![t.cur] = @ \cup {Caller(d, Len(t.log) + 1)}]
        /\ NextSocket(d, OnSendError(t))
        /\ UNCHANGED <<lock, ep, owner, transport>>

\* ----------------------------------------------------------- rsvp_endpoint
\* rsvp_endpoint calls rsvp_campaign, which blocks the event loop until the
\* transaction has committed or raised; the error of a missing campaign
\* leaves the endpoint before anything is sent.
RaiseNotFound_Swallowed(t) == [t EXCEPT !.error = "campaign_not_found"]
RaiseNotFound(t) ==
    [t EXCEPT !.pc = "done", !.todo = EmptyBag, !.error = "campaign_not_found"]

StartRsvp(d, c, r, x) ==
    LET out == TxBody(campaigns[c], rsvps[c][r], r, x)
        t   == [NewTask("rsvp", "rsvp_result", <<r>>, One(r))
                    EXCEPT !.campaign_id = c, !.contact_id = r, !.response = x]
    IN  /\ Fresh(d)
        /\ IF ~campaigns[c].exists THEN
               /\ tasks' = [tasks EXCEPT ![d] = RaiseNotFound(t)]
               /\ UNCHANGED <<campaigns, rsvps, camp_time, rsvp_time>>
           ELSE
               /\ campaigns' = [campaigns EXCEPT ![c] =
                                   ApplyUpdate(@, out.camp_update)]
               /\ camp_time' = [camp_time EXCEPT ![c] =
                                   IF Written(out.camp_update) THEN @ + 1 ELSE @]
               /\ rsvps' = [rsvps EXCEPT ![c][r] =
                               IF Written(out.rsvp_set) THEN out.rsvp_set ELSE @]
               /\ rsvp_time' = [rsvp_time EXCEPT ![c][r] =
                                   IF Written(out.rsvp_set) THEN @ + 1 ELSE @]
               /\ tasks' = [tasks EXCEPT ![d] =
                               [t EXCEPT !.res = [accepted |-> out.accepted,
                                                  remaining_slots |-> out.remaining_slots,
                                                  status |-> out.status]]]
        /\ UNCHANGED <<tx, calls, history, active, lock, ep, owner, transport, unreg>>

\* ------------------------------------------------- responses of the endpoints
\* The status of the response of a request: 200 when the endpoint returns,
\* the status_code of the HTTPException it raises, and 500 for any other
\* exception that leaves it.
StatusOf(error) ==
    CASE error = "none"          -> 200
      [] error = "forbidden"     -> 403
      [] error = "not_found"     -> 404
      [] error = "no_recipients" -> 400
      [] OTHER                   -> 500

HttpStatus(t) == StatusOf(t.error)

\* the request ends with the exception
Raise(t, error) == [t EXCEPT !.pc = "done", !.todo = EmptyBag, !.error = error]

\* ------------------------------------------------------------------ RSVPIn
\* str(data.get("response", "")).strip().lower(), on the values of
\* RawResponses
StripLower(raw) == IF raw = "SI" THEN "si" ELSE raw

\* RSVPIn._normalize: the words for yes become "yes", those for no become
\* "no", and any other value is left as it was sent
Normalize(raw) ==
    LET r == StripLower(raw)
    IN  IF r \in {"yes", "si", "ok"} THEN "yes"
        ELSE IF r \in {"no"} THEN "no"
        ELSE raw

\* POST /campaigns/{campaign_id}/rsvp: the body is validated as RSVPIn and
\* rsvp_endpoint runs on the normalized response
RsvpRequest(d, c, r, raw) == StartRsvp(d, c, r, Normalize(raw))

\* ------------------------------------------------ create_campaign_endpoint
\* _ensure_coordinator: the contact exists and has es_coordinador set
EnsureCoordinator_Skipped(coordinator_id) == TRUE
EnsureCoordinator(coordinator_id) == coordinator_id \in Coordinators

\* POST /campaigns: 403 unless the coordinator is authorized, and then
\* create_campaign
CreateCampaignEndpoint(c, cap, coord) ==
    /\ EnsureCoordinator(coord)
    /\ CreateCampaign(c, cap, coord)

\* -------------------------------------------------- broadcast_for_campaign
\* recipients = body.recipients or []; if not recipients: recipients =
\* find_contact_ids_by_filters(...)
Resolve(recipients, found) == IF recipients # <<>> THEN recipients ELSE found

\* if body.dry_run: return before anything is created or sent
IsDryRun_Ignored(dry_run) == FALSE
IsDryRun(dry_run) == dry_run

\* if not recipients: raise HTTPException(status_code=400)
NoRecipients_Allowed(recipients) == FALSE
NoRecipients(recipients) == recipients = <<>>

\* bulk_create_messages: one queued message per entry of contact_ids, in one
\* batch; the ids of the new documents are returned
MessageIds(contact_ids) == [i \in 1..Len(contact_ids) |-> i]

\* POST /campaigns/{campaign_id}/broadcast
StartCampaignBroadcast(d, c, coord, recipients, found, dry_run) ==
    LET resolved == Resolve(recipients, found)
        t == [NewTask("campaign_broadcast", "campaign_broadcast",
                      resolved, Dedup(resolved))
                  EXCEPT !.campaign_id = c, !.dry_run = dry_run]
    IN  /\ Fresh(d)
        /\ tasks' = [tasks EXCEPT ![d] =
              IF ~EnsureCoordinator(coord) THEN Raise(t, "forbidden")
              ELSE IF ~campaigns[c].exists THEN Raise(t, "not_found")
              ELSE IF IsDryRun(dry_run) THEN
                  [t EXCEPT !.pc = "done", !.todo = EmptyBag,
                            !.count = Len(resolved)]
              ELSE IF NoRecipients(resolved) THEN Raise(t, "no_recipients")
              ELSE [t EXCEPT !.messages = resolved,
                             !.count = Len(resolved),
                             !.message_ids = MessageIds(resolved)]]
        /\ UNCHANGED <<active, lock, ep, owner, transport, unreg>>

\* ----------------------------------------------------------- specification
\* no campaign, no call, no connection and no task yet
StoreInit ==
    /\ campaigns = [c \in CampaignIds |-> NoDoc]
    /\ rsvps     = [c \in CampaignIds |-> [r \in Recipients |-> NoDoc]]
    /\ camp_time = [c \in CampaignIds |-> 0]
    /\ rsvp_time = [c \in CampaignIds |-> [r \in Recipients |-> 0]]
    /\ tx        = EmptyBag
    /\ calls     = 0
    /\ history   = <<>>

WsInit ==
    /\ active    = << >>
    /\ lock      = Unlocked
    /\ ep        = [ws \in Conns |-> "new"]
    /\ owner     = [ws \in Conns |-> "none"]
    /\ transport = [ws \in Conns |-> "up"]
    /\ unreg     = [ws \in Conns |-> {}]
    /\ tasks     = [d \in Tasks |-> IdleTask]

Init == StoreInit /\ WsInit

\* the worker processes and their transactions on the shared store
Next ==
    \/ \E c \in CampaignIds, cap \in CapacityRange, coord \in Coordinators :
           CreateCampaign(c, cap, coord) /\ UNCHANGED wsVars
    \/ \E c \in CampaignIds, r \in Recipients, x \in Responses :
           Begin(c, r, x) /\ UNCHANGED wsVars
    \/ \E t \in BagToSet(tx) : Rerun(t) /\ UNCHANGED wsVars
    \/ \E t \in BagToSet(tx) : ReadRsvp(t) /\ UNCHANGED wsVars
    \/ \E t \in BagToSet(tx) : Commit(t) /\ UNCHANGED wsVars
    \/ \E t \in BagToSet(tx) : Conflict(t) /\ UNCHANGED wsVars

Spec == Init /\ [][Next]_vars

\* the same with a store that can be unavailable
NextStore ==
    \/ Next
    \/ \E t \in BagToSet(tx) : Unavailable(t) /\ UNCHANGED wsVars

SpecStore == Init /\ [][NextStore]_vars

\* one server process: its connection manager, the websocket endpoints and
\* the request tasks that dispatch events
NextWs ==
    \/ \E ws \in Conns, cid \in WsContacts : Accept(ws, cid) /\ UNCHANGED storeVars
    \/ \E ws \in Conns : Register(ws) /\ UNCHANGED storeVars
    \/ \E ws \in Conns : TransportClose(ws) /\ UNCHANGED storeVars
    \/ \E ws \in Conns : Hang(ws) /\ UNCHANGED storeVars
    \/ \E ws \in Conns : EndpointDisconnect(ws) /\ UNCHANGED storeVars
    \/ \E d \in Tasks, cid \in WsContacts : StartSend(d, cid) /\ UNCHANGED storeVars
    \/ \E d \in Tasks, ids \in BroadcastInputs :
           StartBroadcast(d, ids) /\ UNCHANGED storeVars
    \/ \E d \in Tasks, cid \in WsContacts : Snapshot(d, cid) /\ UNCHANGED storeVars
    \/ \E d \in Tasks : SendOk(d) /\ UNCHANGED storeVars
    \/ \E d \in Tasks : SendFail(d) /\ UNCHANGED storeVars

SpecWs == Init /\ [][NextWs]_vars

\* The event loop runs every task that is ready: the ws_contact endpoint
\* whose receive_text has raised WebSocketDisconnect gets to its
\* manager.disconnect call.
FairWs ==
    \A ws \in Conns : WF_vars(EndpointDisconnect(ws) /\ UNCHANGED storeVars)

SpecWsFair == Init /\ [][NextWs]_vars /\ FairWs

\* the same process serving POST /campaigns and POST /campaigns/{id}/rsvp
NextRsvp ==
    \/ \E c \in CampaignIds, cap \in CapacityRange, coord \in Coordinators :
           CreateCampaign(c, cap, coord) /\ UNCHANGED wsVars
    \/ \E d \in Tasks, c \in CampaignIds, r \in WsContacts, x \in Responses :
           StartRsvp(d, c, r, x)
    \/ \E ws \in Conns, cid \in WsContacts : Accept(ws, cid) /\ UNCHANGED storeVars
    \/ \E ws \in Conns : Register(ws) /\ UNCHANGED storeVars
    \/ \E ws \in Conns : TransportClose(ws) /\ UNCHANGED storeVars
    \/ \E ws \in Conns : EndpointDisconnect(ws) /\ UNCHANGED storeVars
    \/ \E d \in Tasks, cid \in WsContacts : Snapshot(d, cid) /\ UNCHANGED storeVars
    \/ \E d \in Tasks : SendOk(d) /\ UNCHANGED storeVars
    \/ \E d \in Tasks : SendFail(d) /\ UNCHANGED storeVars

SpecRsvp == Init /\ [][NextRsvp]_vars

\* the same with clients that stop reading
NextRsvpHang ==
    \/ NextRsvp
    \/ \E ws \in Conns : Hang(ws) /\ UNCHANGED storeVars

SpecRsvpHang == Init /\ [][NextRsvpHang]_vars

\* the endpoints of the campaigns router, with the requests that they reject
NextApi ==
    \/ \E c \in CampaignIds, cap \in CapacityRange, coord \in WsContacts :
           CreateCampaignEndpoint(c, cap, coord) /\ UNCHANGED wsVars
    \/ \E d \in Tasks, c \in CampaignIds, r \in WsContacts, raw \in RawResponses :
           RsvpRequest(d, c, r, raw)
    \/ \E d \in Tasks, c \in CampaignIds, coord \in WsContacts,
          recipients \in RecipientInputs, found \in FilterResults,
          dry_run \in BOOLEAN :
           StartCampaignBroadcast(d, c, coord, recipients, found, dry_run)
               /\ UNCHANGED storeVars
    \/ \E ws \in ApiConns, cid \in WsContacts : Accept(ws, cid) /\ UNCHANGED storeVars
    \/ \E ws \in ApiConns : Register(ws) /\ UNCHANGED storeVars
    \/ \E ws \in ApiConns : TransportClose(ws) /\ UNCHANGED storeVars
    \/ \E ws \in ApiConns : EndpointDisconnect(ws) /\ UNCHANGED storeVars
    \/ \E d \in Tasks, cid \in WsContacts : Snapshot(d, cid) /\ UNCHANGED storeVars
    \/ \E d \in Tasks : SendOk(d) /\ UNCHANGED storeVars
    \/ \E d \in Tasks : SendFail(d) /\ UNCHANGED storeVars

SpecApi == Init /\ [][NextApi]_vars

\* ------------------------------------------------------------------ claims
\* the calls of the log that returned a result
Returned(e) == e.error = "none"
Results == SelectSeq(history, Returned)

\* some call of the log was rolled back and run again: it overlapped another
Overlapped == \E i \in 1..Len(history) : history[i].attempts >= 2

\* C1: in every reachable state every campaign has
\* 0 <= accepted_count <= capacity.
C1_CountWithinCapacity ==
    \A c \in CampaignIds :
        campaigns[c].exists =>
            /\ 0 <= campaigns[c].accepted_count
            /\ campaigns[c].accepted_count <= campaigns[c].capacity

\* a campaign of capacity 2 filled by calls of which one was run again
C1_Witness ==
    /\ Overlapped
    /\ \E c \in CampaignIds :
           /\ campaigns[c].exists
           /\ campaigns[c].capacity = 2
           /\ campaigns[c].accepted_count = campaigns[c].capacity

\* the two calls of C2: the only calls that ended so far, both "yes", by two
\* contacts, on campaign c of capacity 1 that had accepted nobody
TwoYesOnLastSlot(c) ==
    /\ campaigns[c].exists
    /\ campaigns[c].capacity = 1
    /\ Len(history) = 2
    /\ \A i \in 1..2 : /\ Returned(history[i])
                       /\ history[i].campaign_id = c
                       /\ history[i].response = "yes"
    /\ history[1].contact_id # history[2].contact_id
    /\ history[1].pre.accepted_count = 0
    /\ history[1].pre.status = "open"

\* C2: two "yes" calls by different contacts on an open campaign with
\* capacity 1 and accepted_count 0 end, however they interleave, with
\* exactly one accepted and one rejected, accepted_count 1 and status closed.
C2_OneSlotOneWinner ==
    \A c \in CampaignIds :
        TwoYesOnLastSlot(c) =>
            /\ history[1].accepted # history[2].accepted
            /\ campaigns[c].accepted_count = 1
            /\ campaigns[c].status = "closed"

\* both calls had read the open campaign before either committed
C2_Witness ==
    /\ \E c \in CampaignIds : TwoYesOnLastSlot(c)
    /\ history[2].attempts = 2

\* _tx run alone on the current documents of a campaign: what the store
\* holds afterwards and what the call returns.
RunAlone(st, e) ==
    LET out == TxBody(st.camp, st.rsvps[e.contact_id], e.contact_id, e.response)
    IN  [camp  |-> ApplyUpdate(st.camp, out.camp_update),
         rsvps |-> IF Written(out.rsvp_set)
                   THEN [st.rsvps EXCEPT ![e.contact_id] = out.rsvp_set]
                   ELSE st.rsvps,
         same  |-> /\ st.same
                   /\ e.accepted = out.accepted
                   /\ e.remaining_slots = out.remaining_slots
                   /\ e.status = out.status]

\* the first n calls that returned a result on campaign c, run one at a
\* time in the order of the log on the campaign as create_campaign left it
RECURSIVE OneAtATime(_, _)
OneAtATime(c, n) ==
    IF n = 0 THEN
        [camp  |-> NewCampaign(campaigns[c].capacity, campaigns[c].coordinator_id),
         rsvps |-> [r \in Recipients |-> NoDoc],
         same  |-> TRUE]
    ELSE IF Results[n].campaign_id = c
         THEN RunAlone(OneAtATime(c, n - 1), Results[n])
         ELSE OneAtATime(c, n - 1)

\* C3: every execution of interleaved calls on a campaign gives each call
\* the result, and leaves the campaign and its RSVP documents in the state,
\* that the same calls give when run one at a time in the order of their
\* commits.
C3_Linearizable ==
    \A c \in CampaignIds :
        campaigns[c].exists =>
            LET seq == OneAtATime(c, Len(Results))
            IN  /\ seq.same
                /\ seq.camp = campaigns[c]
                /\ seq.rsvps = rsvps[c]

\* three calls returned and one of them was run again after a conflict
C3_Witness ==
    /\ Overlapped
    /\ Len(Results) >= 3
    /\ \E i \in 1..Len(Results) : Results[i].accepted
    /\ \E i \in 1..Len(Results) : ~Results[i].accepted

\* the contacts of whom campaign c accepted a "yes"
AcceptedContacts(c) ==
    {Results[i].contact_id : i \in {j \in 1..Len(Results) :
                                        /\ Results[j].campaign_id = c
                                        /\ Results[j].response = "yes"
                                        /\ Results[j].accepted}}

\* C4: a later RSVP of the same contact never counts twice: accepted_count
\* never exceeds the number of distinct contacts whose "yes" was accepted.
C4_NoDoubleCount ==
    \A c \in CampaignIds :
        campaigns[c].exists =>
            campaigns[c].accepted_count <= Cardinality(AcceptedContacts(c))

\* entries i and i+1 of the log are two "yes" calls of one contact on one
\* campaign, the first of them accepted
YesTwice(i) ==
    /\ i + 1 <= Len(history)
    /\ Returned(history[i]) /\ Returned(history[i + 1])
    /\ history[i].campaign_id = history[i + 1].campaign_id
    /\ history[i].contact_id = history[i + 1].contact_id
    /\ history[i].response = "yes" /\ history[i + 1].response = "yes"
    /\ history[i].accepted

SameAnswer(i) ==
    /\ history[i + 1].accepted
    /\ history[i + 1].remaining_slots = history[i].remaining_slots
    /\ history[i + 1].post.accepted_count = history[i].post.accepted_count

\* C5 as stated: a "yes" repeated right after an accepted "yes" of the same
\* contact is accepted again, with the same remaining_slots and the same
\* accepted_count.
C5_YesIdempotent_Stated ==
    \A i \in 1..Len(history) : YesTwice(i) => SameAnswer(i)

\* C5: a "yes" repeated right after an accepted "yes" of the same contact
\* that left the campaign open is accepted again, with the same
\* remaining_slots and the same accepted_count; when the first "yes" closed
\* the campaign the second is rejected, with remaining_slots and
\* accepted_count unchanged.
C5_YesIdempotentWhileOpen ==
    \A i \in 1..Len(history) :
        YesTwice(i) =>
            IF history[i].status = "open"
            THEN SameAnswer(i)
            ELSE /\ ~history[i + 1].accepted
                 /\ history[i + 1].remaining_slots = history[i].remaining_slots
                 /\ history[i + 1].post.accepted_count = history[i].post.accepted_count

\* a repeated "yes" on a campaign that the first one left open
C5_Witness ==
    \E i \in 1..Len(history) :
        /\ YesTwice(i)
        /\ history[i].status = "open"
        /\ history[i + 1].accepted
        /\ history[i].attempts = 1 /\ history[i + 1].attempts = 1

\* C6: once a campaign is closed, every later "yes", of any contact, is
\* rejected and leaves accepted_count as it was.
C6_ClosedStaysFull ==
    \A i, j \in 1..Len(Results) :
        ( /\ i < j
          /\ Results[i].campaign_id = Results[j].campaign_id
          /\ Results[i].post.status = "closed"
          /\ Results[j].response = "yes" ) =>
            /\ ~Results[j].accepted
            /\ Results[j].post.accepted_count = Results[i].post.accepted_count
            /\ campaigns[Results[j].campaign_id].accepted_count
                   = Results[i].post.accepted_count

\* a "yes" of a contact holding a slot, and one of a contact holding none,
\* after the call that closed the campaign
C6_Witness ==
    \E i, j \in 1..Len(Results) :
        /\ i < j
        /\ Results[i].post.status = "closed"
        /\ Results[i].pre.status = "open"
        /\ Results[j].response = "yes"
        /\ Results[j].contact_id = Results[i].contact_id
        /\ ~Results[j].accepted

\* the RSVP documents of a campaign are keyed by contact: the document
\* under key r, when there is one, is the one of contact r
OneRecordPerContact ==
    \A c \in CampaignIds : \A r \in Recipients :
        rsvps[c][r].exists => rsvps[c][r].contact_id = r

\* the stored record of the caller after call e shows the response of e
RecordShows(e) == e.rsvp_post.exists /\ e.rsvp_post.response = e.response

\* C7 as stated: at most one RSVP record per (campaign, contact), and after
\* every completed call the stored record's response is the one of the call.
C7_RecordIsLastResponse_Stated ==
    /\ OneRecordPerContact
    /\ \A i \in 1..Len(Results) : RecordShows(Results[i])

\* C7: at most one RSVP record per (campaign, contact); after every
\* completed call that returned accepted=true or was a "no" on an open
\* campaign the stored record's response is the one of the call, and every
\* other completed call (campaign closed, "yes" rejected) leaves the
\* caller's record as it was.
C7_RecordIsLastRecordedResponse ==
    /\ OneRecordPerContact
    /\ \A i \in 1..Len(Results) :
           LET e == Results[i]
           IN  IF e.accepted \/ (e.response = "no" /\ e.pre.status = "open")
               THEN RecordShows(e)
               ELSE e.rsvp_post = e.rsvp_pre

\* a "yes" overwrote the "no" record of the same contact, and a later call
\* on the closed campaign left a record that differs from its response
C7_Witness ==
    /\ \E i \in 1..Len(Results) :
           /\ Results[i].response = "yes"
           /\ Results[i].rsvp_pre.exists
           /\ Results[i].rsvp_pre.response = "no"
           /\ Results[i].rsvp_post.response = "yes"
    /\ \E i \in 1..Len(Results) :
           /\ Results[i].pre.status = "closed"
           /\ ~RecordShows(Results[i])

\* C8: a campaign that is closed is never open again, and a campaign goes
\* from open to closed exactly in the step, the commit of an accepted "yes",
\* that makes accepted_count reach capacity.
C8_StatusOneWay ==
    [][\A c \in CampaignIds :
           campaigns[c].exists =>
               /\ campaigns[c].status = "closed" => campaigns'[c].status = "closed"
               /\ (campaigns[c].status = "open" /\ campaigns'[c].status = "closed")
                      <=> ( /\ campaigns[c].accepted_count < campaigns[c].capacity
                            /\ campaigns'[c].accepted_count = campaigns[c].capacity )
               /\ campaigns'[c].status # campaigns[c].status =>
                      /\ Len(history') = Len(history) + 1
                      /\ history'[Len(history')].campaign_id = c
                      /\ history'[Len(history')].response = "yes"
                      /\ history'[Len(history')].accepted]_vars

\* a campaign of capacity 2 was closed by its second accepted "yes" and a
\* call returned after that
C8_Witness ==
    \E i, j \in 1..Len(Results) :
        /\ i < j
        /\ Results[i].pre.status = "open"
        /\ Results[i].pre.accepted_count = 1
        /\ Results[i].post.status = "closed"
        /\ Results[i].post.accepted_count = 2
        /\ campaigns[Results[i].campaign_id].status = "closed"

\* C9: a campaign is closed exactly when it would accept no further "yes":
\* in every state a "yes" of any contact would be accepted iff the campaign
\* is open, and every "yes" that returned was accepted iff the campaign was
\* open when its transaction committed.
C9_ClosedIffNoYesAccepted ==
    /\ \A c \in CampaignIds : \A r \in Recipients :
           campaigns[c].exists =>
               ( TxBody(campaigns[c], rsvps[c][r], r, "yes").accepted
                     <=> campaigns[c].status = "open" )
    /\ \A i \in 1..Len(Results) :
           Results[i].response = "yes" =>
               ( Results[i].accepted <=> Results[i].pre.status = "open" )

\* a "yes" was accepted on the open campaign and a "yes" was rejected on the
\* closed one, one of the calls after a conflict
C9_Witness ==
    /\ Overlapped
    /\ \E i, j \in 1..Len(Results) :
           /\ Results[i].response = "yes" /\ Results[i].accepted
           /\ Results[i].pre.status = "open"
           /\ Results[j].response = "yes" /\ ~Results[j].accepted
           /\ Results[j].pre.status = "closed"

\* the first three calls that returned are "yes" calls of three contacts on
\* campaign c of capacity 2
ThreeYes(c) ==
    /\ campaigns[c].exists
    /\ campaigns[c].capacity = 2
    /\ Len(Results) >= 3
    /\ \A i \in 1..3 : /\ Results[i].campaign_id = c
                       /\ Results[i].response = "yes"
    /\ Cardinality({Results[i].contact_id : i \in 1..3}) = 3

Answer(e) == <<e.accepted, e.remaining_slots, e.status>>

\* C10: on a fresh campaign of capacity 2, "yes" by r1 returns (accepted,
\* 1 slot left, open), then "yes" by r2 returns (accepted, 0 left, closed),
\* then "yes" by r3 returns (rejected, 0 left, closed).
C10_ThreeYesScenario ==
    \A c \in CampaignIds :
        ThreeYes(c) =>
            /\ Answer(Results[1]) = <<TRUE, 1, "open">>
            /\ Answer(Results[2]) = <<TRUE, 0, "closed">>
            /\ Answer(Results[3]) = <<FALSE, 0, "closed">>

\* the three calls ran one after the other, none of them run again
C10_Witness ==
    /\ \E c \in CampaignIds : ThreeYes(c)
    /\ Len(history) = 3
    /\ \A i \in 1..3 : history[i].attempts = 1
    /\ tx = EmptyBag

\* C11: a respond call is all-or-nothing.  In every step, the accepted count
\* of an existing campaign goes up by one exactly when an RSVP record of the
\* campaign becomes a "yes" in that same step, and otherwise stays; and a
\* step in which a call fails (the store is unavailable, the campaign is
\* missing, the attempts are used up) or in which an attempt is only read,
\* refused or re-run leaves the campaign and its RSVP records as they were.
BecameYes(c) ==
    {r \in Recipients : /\ rsvps'[c][r] # rsvps[c][r]
                        /\ rsvps'[c][r].exists
                        /\ rsvps'[c][r].response = "yes"}

NothingCommitted ==
    \/ history' = history
    \/ history'[Len(history')].error # "none"

C11_AllOrNothing ==
    [][\A c \in CampaignIds :
          campaigns[c].exists =>
              /\ campaigns'[c].accepted_count =
                     campaigns[c].accepted_count + Cardinality(BecameYes(c))
              /\ NothingCommitted =>
                     /\ campaigns'[c] = campaigns[c]
                     /\ rsvps'[c] = rsvps[c]]_vars

\* a call failed on the unavailable store after it had read an open
\* campaign, and the re-run of a refused attempt was accepted
C11_Witness ==
    \E i, j \in 1..Len(history) :
        /\ history[i].error = "unavailable"
        /\ history[i].response = "yes"
        /\ history[i].pre.status = "open"
        /\ history[j].error = "none"
        /\ history[j].attempts > 1
        /\ history[j].accepted
        /\ history[j].post.accepted_count = history[j].pre.accepted_count + 1

\* C12: a respond request for a campaign id that references no campaign
\* fails with campaign_not_found; the step in which it fails creates no
\* campaign document and no RSVP record, and the request ends there: it
\* never dispatches an rsvp_result or rsvp_update event.
NotFound(t) == t.kind = "rsvp" /\ t.error = "campaign_not_found"

C12_NotFoundNoEffect ==
    [][\A d \in Tasks :
          NotFound(tasks'[d]) =>
              /\ tasks'[d].pc = "done"
              /\ tasks'[d].log = <<>>
              /\ tasks'[d].res = NoResult
              /\ ~NotFound(tasks[d]) =>
                     /\ campaigns' = campaigns
                     /\ rsvps' = rsvps
                     /\ ~campaigns'[tasks'[d].campaign_id].exists
                     /\ \A r \in Recipients :
                            ~rsvps'[tasks'[d].campaign_id][r].exists]_vars

\* a respond request failed with campaign_not_found while its responder had
\* a registered connection that an event could have been sent to
C12_Witness ==
    \E d \in Tasks :
        /\ NotFound(tasks[d])
        /\ Sockets(active, tasks[d].contact_id) # {}

\* the send_personal_message calls that have returned: the task, the number
\* of the call within the task, and what the call did
ReturnedCalls ==
    UNION {{<<d, n>> : n \in 1..Len(tasks[d].log)} : d \in Tasks}

CallOf(dn) == tasks[dn[1]].log[dn[2]]

\* C13: self-healing dispatch.  A send_to call that has returned was over
\* the connections of its snapshot, each of which either failed or
\* succeeded; it returned the number M of those that succeeded; none of
\* the N that failed is in the registry set of the recipient in any later
\* state; and each of the M that succeeded is still in that set unless an
\* unregister call (of its endpoint or of another send_to call) removed it.
C13_SelfHealing ==
    \A dn \in ReturnedCalls :
        LET e == CallOf(dn)
        IN  /\ e.good \cup e.bad = e.snap
            /\ e.good \cap e.bad = {}
            /\ e.ok = Cardinality(e.good)
            /\ \A ws \in e.bad : ws \notin Sockets(active, e.cid)
            /\ \A ws \in e.good :
                   \/ ws \in Sockets(active, e.cid)
                   \/ unreg[ws] \ {Caller(dn[1], dn[2])} # {}

\* a send_to call returned after one of its sends had failed and another
\* had succeeded, and the connection that succeeded is still registered
C13_Witness ==
    \E dn \in ReturnedCalls :
        LET e == CallOf(dn)
        IN  /\ e.bad # {}
            /\ e.good # {}
            /\ e.ok = 1
            /\ e.good \subseteq Sockets(active, e.cid)

\* C14: registry cleanup.  No recipient id maps to an empty set of
\* connections: the unregister that removes the last connection of a
\* recipient removes the entry of the recipient from the map.
C14_NoEmptyEntry ==
    \A k \in DOMAIN active : active[k] # {}

\* the only connection of a recipient was registered and then unregistered,
\* and the recipient has no entry
C14_Witness ==
    \E ws \in Conns :
        /\ ep[ws] \in {"open", "gone"}
        /\ unreg[ws] # {}
        /\ owner[ws] \notin DOMAIN active
        /\ \A other \in Conns \ {ws} : owner[other] # owner[ws]

\* C15: a connection handle that an unregister call was completed for (by
\* its websocket endpoint when the client disconnected, or by a send_to call
\* whose send to it failed) is in the set of no recipient.
C15_UnregisteredStaysOut ==
    \A ws \in Conns :
        unreg[ws] # {} => \A k \in DOMAIN active : ws \notin active[k]

\* a connection was unregistered by a send_to call, its endpoint unregistered
\* it again, and another connection of the same recipient is registered
C15_Witness ==
    \E ws \in Conns :
        /\ Endpoint \in unreg[ws]
        /\ unreg[ws] # {Endpoint}
        /\ Sockets(active, owner[ws]) # {}

\* C16: no connection handle is in the sets of two different recipient ids.
C16_OneRecipientPerConnection ==
    \A j, k \in DOMAIN active : j # k => active[j] \cap active[k] = {}

\* two recipients have a registered connection each
C16_Witness ==
    \E j, k \in DOMAIN active : j # k /\ active[j] # {} /\ active[k] # {}

\* C17: register is safe under concurrency.  Every connection whose register
\* call has completed, and that no unregister call was made for, is in the
\* set of its recipient.
RegisterCompleted(ws) == ep[ws] \in {"open", "gone"}

C17_NoLostRegistration ==
    \A ws \in Conns :
        RegisterCompleted(ws) /\ unreg[ws] = {} =>
            ws \in Sockets(active, owner[ws])

\* two register calls of one recipient that had no entry have both completed
C17_Witness ==
    \E v, ws \in Conns :
        /\ v # ws
        /\ owner[v] = owner[ws]
        /\ RegisterCompleted(v) /\ RegisterCompleted(ws)
        /\ unreg[v] = {} /\ unreg[ws] = {}
        /\ active[owner[ws]] = {v, ws}

\* C18: a broadcast makes one send_to call per distinct recipient id of its
\* input, whatever the number of times the id occurs in it: the calls that
\* have returned are for different ids of the input and went over disjoint
\* sets of connections, the count the broadcast holds is the sum of what
\* the calls returned, and when the broadcast has returned there is one
\* call for each distinct id.
RECURSIVE SumOk(_)
SumOk(log) == IF log = <<>> THEN 0 ELSE log[1].ok + SumOk(Tail(log))

Ids(ids) == {ids[i] : i \in 1..Len(ids)}

C18_BroadcastDedups ==
    \A d \in Tasks :
        LET t == tasks[d]
        IN  t.kind = "broadcast" =>
                /\ \A i, j \in 1..Len(t.log) :
                       i # j => /\ t.log[i].cid # t.log[j].cid
                                /\ t.log[i].snap \cap t.log[j].snap = {}
                /\ \A i \in 1..Len(t.log) : t.log[i].cid \in Ids(t.ids)
                /\ t.ok_total = SumOk(t.log)
                /\ t.pc = "done" =>
                       {t.log[i].cid : i \in 1..Len(t.log)} = Ids(t.ids)

\* a broadcast over an input that names a recipient twice has returned, and
\* it delivered the event to a connection of that recipient
C18_Witness ==
    \E d \in Tasks :
        LET t == tasks[d]
        IN  /\ t.kind = "broadcast"
            /\ t.pc = "done"
            /\ Len(t.ids) > Cardinality(Ids(t.ids))
            /\ \E i \in 1..Len(t.log) :
                   /\ t.log[i].ok > 0
                   /\ Cardinality({k \in 1..Len(t.ids) : t.ids[k] = t.log[i].cid}) > 1

\* C19: the lock is not held by a task that is suspended in a send, so that
\* the register call of a connection whose handshake is done can complete
\* while the send is slow or hung.
C19_NoLockAcrossSend ==
    \A d \in Tasks :
        tasks[d].pc = "in_send" =>
            /\ lock # HeldBy(d)
            /\ \A ws \in Conns :
                   ep[ws] = "accepting" => ENABLED Register(ws)

\* a send hangs, and a connection of the same recipient that was registered
\* after the snapshot of the call is in the registry
C19_Witness ==
    \E d \in Tasks :
        LET t == tasks[d]
        IN  /\ t.pc = "in_send"
            /\ transport[t.cur] = "hung"
            /\ Sockets(active, t.cid) \ t.snap # {}

\* C20: the latency of a send is bounded.  A task that is suspended in a
\* send can always go on by itself, with the completion of the send or with
\* its failure (the timeout of a send that hangs counts as a failure).
C20_SendLatencyBounded ==
    \A d \in Tasks :
        tasks[d].pc = "in_send" => ENABLED (SendOk(d) \/ SendFail(d))

\* the respond transaction of an rsvp request has committed
Committed(t) == t.kind = "rsvp" /\ t.error = "none" /\ t.res # NoResult

\* the request is sending, or has sent, an event
Dispatching(t) == t.pc = "in_send" \/ t.log # <<>> \/ t.cid # "none"

\* C21: in the rsvp use case the notifications come after the commit and
\* never undo it.  A request that is sending or has sent an event has
\* committed its transaction before; and every step of a request after its
\* commit (a snapshot, a send that succeeds or fails, the return of a
\* send_to call over no connection) leaves the campaigns, the RSVP records
\* and the result of the transaction as they were.
C21_NotifyAfterCommit ==
    [][\A d \in Tasks :
          /\ tasks'[d].kind = "rsvp" /\ Dispatching(tasks'[d]) =>
                 Committed(tasks'[d])
          /\ Committed(tasks[d]) /\ tasks'[d] # tasks[d] =>
                 /\ campaigns' = campaigns
                 /\ rsvps' = rsvps
                 /\ tasks'[d].res = tasks[d].res
                 /\ Committed(tasks'[d])]_vars

\* an accepted yes was committed, the rsvp_result was sent over no
\* connection, the send of the rsvp_update failed, and the count and the
\* record are there
C21_Witness ==
    \E d \in Tasks :
        LET t == tasks[d]
        IN  /\ Committed(t)
            /\ t.res.accepted
            /\ t.pc = "done"
            /\ Len(t.log) = 2
            /\ t.log[1].snap = {}
            /\ t.log[2].bad # {}
            /\ campaigns[t.campaign_id].accepted_count > 0
            /\ rsvps[t.campaign_id][t.contact_id] = RsvpDoc(t.contact_id, "yes")

\* the request has made, or is making, its send_to call for the event
Dispatched(t, event) ==
    \/ \E i \in 1..Len(t.log) : t.log[i].event = event
    \/ t.pc = "in_send" /\ t.event = event

\* the next step of the dispatch of request d
Dispatch(d) ==
    \/ \E cid \in WsContacts : Snapshot(d, cid)
    \/ SendOk(d)
    \/ SendFail(d)

\* C22: every respond transaction that commits is followed by the dispatch
\* of an rsvp_result to the responder and of an rsvp_update to the
\* coordinator.  The request goes from its commit to the second dispatch by
\* its own steps, so each state on the way has to let it take the next one:
\* a committed request that has not dispatched both events yet can go on.
C22_CommitIsNotified ==
    \A d \in Tasks :
        LET t == tasks[d]
        IN  Committed(t) /\ ~(Dispatched(t, "rsvp_result")
                              /\ Dispatched(t, "rsvp_update")) =>
                ENABLED Dispatch(d)

\* a send of the request has failed
SendFailed(t) == t.bad # {} \/ \E i \in 1..Len(t.log) : t.log[i].bad # {}

\* the request has returned
Done(t) == t.pc = "done"

ClientError(status) == status \in 400..499

\* C23: dispatch failures are absorbed.  A request one of whose sends has
\* failed is not failed by it; an rsvp request whose transaction committed
\* returns 200 with the result of the transaction, and a campaign broadcast
\* whose messages were created returns 200 with their count, whether or not
\* any notification was delivered.
C23_DispatchFailureAbsorbed ==
    \A d \in Tasks :
        LET t == tasks[d]
        IN  /\ SendFailed(t) => t.error = "none"
            /\ t.kind = "rsvp" /\ t.res # NoResult /\ Done(t) =>
                   HttpStatus(t) = 200
            /\ t.kind = "campaign_broadcast" /\ t.messages # <<>> /\ Done(t) =>
                   /\ HttpStatus(t) = 200
                   /\ t.count = Len(t.messages)

\* an accepted rsvp request has returned 200 although a send failed and no
\* notification was delivered
C23_Witness ==
    \E d \in Tasks :
        LET t == tasks[d]
        IN  /\ t.kind = "rsvp"
            /\ Done(t)
            /\ t.res.accepted
            /\ HttpStatus(t) = 200
            /\ SendFailed(t)
            /\ \A i \in 1..Len(t.log) : t.log[i].ok = 0

\* the result of a campaign broadcast request with dry_run
DryRunResult(t) ==
    t.kind = "campaign_broadcast" /\ t.dry_run /\ t.error = "none"

\* C24: a campaign broadcast with dry_run has no side effect.  The step of
\* the request returns the number of resolved recipients as count and no
\* message id; it creates no message and changes neither the registry nor
\* a campaign or RSVP record; and the request ends there, without a send.
C24_DryRunNoSideEffect ==
    [][\A d \in Tasks :
          DryRunResult(tasks'[d]) =>
              /\ Done(tasks'[d])
              /\ tasks'[d].count = Len(tasks'[d].ids)
              /\ tasks'[d].message_ids = <<>>
              /\ tasks'[d].messages = <<>>
              /\ tasks'[d].log = <<>>
              /\ tasks'[d].cid = "none"
              /\ ~DryRunResult(tasks[d]) =>
                     /\ active' = active
                     /\ campaigns' = campaigns
                     /\ rsvps' = rsvps]_vars

\* a dry run over the two contacts that the filters found has returned
\* count 2 while one of them had a registered connection
C24_Witness ==
    \E d \in Tasks :
        LET t == tasks[d]
        IN  /\ DryRunResult(t)
            /\ t.count = 2
            /\ \E i \in 1..Len(t.ids) : Sockets(active, t.ids[i]) # {}

\* a campaign broadcast request that was authorized, found its campaign,
\* is no dry run and resolved no recipient
EmptyBroadcast(t) ==
    /\ t.kind = "campaign_broadcast"
    /\ t.error \notin {"forbidden", "not_found"}
    /\ ~t.dry_run
    /\ t.ids = <<>>

\* C25: a campaign broadcast without dry_run whose recipients resolve to
\* nothing fails with the client error 400; it creates no message and
\* sends no notification.
C25_EmptyBroadcastRejected ==
    \A d \in Tasks :
        LET t == tasks[d]
        IN  EmptyBroadcast(t) =>
                /\ t.error = "no_recipients"
                /\ ClientError(HttpStatus(t))
                /\ Done(t)
                /\ t.messages = <<>>
                /\ t.message_ids = <<>>
                /\ t.log = <<>>
                /\ t.cid = "none"

\* such a request was rejected while a contact had a registered connection
C25_Witness ==
    \E d \in Tasks :
        /\ EmptyBroadcast(tasks[d])
        /\ HttpStatus(tasks[d]) = 400
        /\ DOMAIN active # {}

\* C26: a campaign is persisted only for a coordinator_id that passes the
\* authorization check, and it starts open, with no acceptance and with a
\* capacity of at least 1.
C26_CreateAuthorizedOpen ==
    [][\A c \in CampaignIds :
          ~campaigns[c].exists /\ campaigns'[c].exists =>
              /\ campaigns'[c].coordinator_id \in Coordinators
              /\ campaigns'[c].status = "open"
              /\ campaigns'[c].accepted_count = 0
              /\ campaigns'[c].capacity >= 1]_vars

\* a campaign of an authorized coordinator was persisted and is as created
C26_Witness ==
    \E c \in CampaignIds :
        /\ campaigns[c].exists
        /\ campaigns[c].coordinator_id \in Coordinators
        /\ campaigns[c].status = "open"
        /\ campaigns[c].accepted_count = 0

\* an rsvp request whose response is neither "yes" nor "no" after
\* normalization, on a campaign that exists
Malformed(t) ==
    /\ t.kind = "rsvp"
    /\ t.response \notin {"yes", "no"}
    /\ t.error # "campaign_not_found"

\* C27: an rsvp request with a malformed response is rejected with a client
\* error and no transaction is run for it.
C27_MalformedRejected ==
    \A d \in Tasks :
        Malformed(tasks[d]) =>
            /\ ClientError(HttpStatus(tasks[d]))
            /\ tasks[d].res = NoResult
            /\ ~rsvps[tasks[d].campaign_id][tasks[d].contact_id].exists

\* C28: an rsvp request for a campaign that does not exist is answered with
\* a client error.
C28_NotFoundIsClientError ==
    \A d \in Tasks :
        NotFound(tasks[d]) => ClientError(HttpStatus(tasks[d]))

\* the connection is in the registry
Registered(ws) == \E k \in DOMAIN active : ws \in active[k]

\* C29: a registered connection whose transport has closed (a send to it
\* can fail from then on) is eventually removed from the registry, when
\* the event loop runs the endpoint of the connection.
C29_ClosedIsRemoved ==
    \A ws \in Conns :
        (Registered(ws) /\ transport[ws] = "down") ~> ~Registered(ws)

\* the endpoint of a connection whose transport had closed has removed it
\* while a request was suspended in a send to it
C29_Witness ==
    \E ws \in Conns, d \in Tasks :
        /\ transport[ws] = "down"
        /\ ep[ws] = "gone"
        /\ unreg[ws] = {Endpoint}
        /\ tasks[d].pc = "in_send"
        /\ tasks[d].cur = ws
        /\ ~Registered(ws)

\* C30: a respond call that finds the campaign closed mutates nothing and
\* returns accepted = false, remaining_slots = max(0, capacity -
\* accepted_count) and status = closed.  In the step in which such a call
\* returns, the campaigns and all RSVP records, that of the caller included,
\* stay as they were, whatever the response and the recipient.
C30_ClosedIsReadOnly ==
    [][history' # history =>
          LET e == history'[Len(history')]
          IN  e.error = "none" /\ e.pre.status = "closed" =>
                  /\ campaigns' = campaigns
                  /\ rsvps' = rsvps
                  /\ e.post = e.pre
                  /\ e.rsvp_post = e.rsvp_pre
                  /\ ~e.accepted
                  /\ e.remaining_slots =
                         Max(0, e.pre.capacity - e.pre.accepted_count)
                  /\ e.status = "closed"]_vars

\* on a closed campaign, a yes of a contact without a record and a no of
\* the contact whose yes was accepted have both returned
C30_Witness ==
    \E i, j \in 1..Len(history) :
        /\ history[i].error = "none" /\ history[j].error = "none"
        /\ history[i].pre.status = "closed"
        /\ history[j].pre.status = "closed"
        /\ history[i].response = "yes"
        /\ ~history[i].rsvp_pre.exists
        /\ history[j].response = "no"
        /\ history[j].rsvp_pre = RsvpDoc(history[j].contact_id, "yes")
        /\ rsvps[history[j].campaign_id][history[j].contact_id]
               = RsvpDoc(history[j].contact_id, "yes")

\* a "no" that returned after its transaction committed on an open campaign
NoOnOpen(e) ==
    /\ Returned(e)
    /\ e.response = "no"
    /\ e.pre.status = "open"

\* C31: a "no" on an open campaign sets the caller's RSVP record to "no"
\* and leaves the campaign document as it was, accepted_count and status
\* included, also when the caller's previous record was an accepted "yes"
\* (no decrement, no reopening); it returns accepted = false,
\* remaining_slots = max(0, capacity - accepted_count) and status = open.
C31_NoKeepsCount ==
    \A i \in 1..Len(history) :
        LET e == history[i]
        IN  NoOnOpen(e) =>
                /\ e.rsvp_post.exists
                /\ e.rsvp_post.contact_id = e.contact_id
                /\ e.rsvp_post.response = "no"
                /\ e.post = e.pre
                /\ e.post.accepted_count = e.pre.accepted_count
                /\ e.post.status = "open"
                /\ ~e.accepted
                /\ e.remaining_slots =
                       Max(0, e.pre.capacity - e.pre.accepted_count)
                /\ e.status = "open"

\* the "no" of a contact whose "yes" was accepted and holds a slot of the
\* open campaign has returned, and the slot is still counted
C31_Witness ==
    \E i \in 1..Len(history) :
        LET e == history[i]
        IN  /\ NoOnOpen(e)
            /\ e.rsvp_pre.exists
            /\ e.rsvp_pre.response = "yes"
            /\ e.pre.accepted_count = 1
            /\ e.remaining_slots = 1
            /\ campaigns[e.campaign_id].accepted_count = 1
            /\ rsvps[e.campaign_id][e.contact_id].response = "no"

\* a "yes" that returned after its transaction committed on an open
\* campaign on which the caller's record was "yes" already
RepeatedYes(e) ==
    /\ Returned(e)
    /\ e.response = "yes"
    /\ e.pre.status = "open"
    /\ e.rsvp_pre.exists
    /\ e.rsvp_pre.response = "yes"

\* C32: a "yes" on an open campaign on which the caller's record is "yes"
\* already writes nothing: in the step in which the call returns, the
\* campaign documents, the RSVP records and the update times of both stay
\* as they were; the call returns accepted = true, remaining_slots =
\* max(0, capacity - accepted_count) and the status of the campaign.
C32_RepeatedYesWritesNothing ==
    [][history' # history =>
          LET e == history'[Len(history')]
          IN  RepeatedYes(e) =>
                  /\ campaigns' = campaigns
                  /\ rsvps' = rsvps
                  /\ camp_time' = camp_time
                  /\ rsvp_time' = rsvp_time
                  /\ e.post = e.pre
                  /\ e.rsvp_post = e.rsvp_pre
                  /\ e.accepted
                  /\ e.remaining_slots =
                         Max(0, e.pre.capacity - e.pre.accepted_count)
                  /\ e.status = e.pre.status]_vars

\* the second "yes" of a contact has returned on the campaign of capacity 2
\* that its first "yes" left open with one slot
C32_Witness ==
    \E i \in 1..Len(history) :
        LET e == history[i]
        IN  /\ RepeatedYes(e)
            /\ e.pre.capacity = 2
            /\ e.pre.accepted_count = 1
            /\ e.accepted
            /\ e.remaining_slots = 1
            /\ campaigns[e.campaign_id].accepted_count = 1

\* a "yes" that returned after its transaction committed on an open
\* campaign with a free slot, the caller having no record or a "no" record
FreshYes(e) ==
    /\ Returned(e)
    /\ e.response = "yes"
    /\ e.pre.status = "open"
    /\ ~(e.rsvp_pre.exists /\ e.rsvp_pre.response = "yes")
    /\ e.pre.accepted_count < e.pre.capacity

\* C33: a fresh "yes" on an open campaign with accepted_count < capacity
\* sets the caller's record to "yes", adds exactly 1 to accepted_count,
\* sets status to closed exactly when the new accepted_count >= capacity
\* and leaves it open otherwise, and returns accepted = true,
\* remaining_slots = max(0, capacity - new count) and the new status.
C33_FreshYesTakesOneSlot ==
    \A i \in 1..Len(history) :
        LET e == history[i]
            new_count == e.pre.accepted_count + 1
        IN  FreshYes(e) =>
                /\ e.rsvp_post.exists
                /\ e.rsvp_post.contact_id = e.contact_id
                /\ e.rsvp_post.response = "yes"
                /\ e.post.accepted_count = new_count
                /\ e.post.capacity = e.pre.capacity
                /\ e.post.status = IF new_count >= e.pre.capacity
                                   THEN "closed" ELSE "open"
                /\ e.accepted
                /\ e.remaining_slots = Max(0, e.pre.capacity - new_count)
                /\ e.status = e.post.status

\* on a campaign of capacity 2, the "yes" of a contact without a record
\* left the campaign open and the "yes" of a contact whose record was "no"
\* closed it
C33_Witness ==
    \E i, j \in 1..Len(history) :
        /\ FreshYes(history[i]) /\ FreshYes(history[j])
        /\ ~history[i].rsvp_pre.exists
        /\ history[i].post.status = "open"
        /\ history[i].remaining_slots = 1
        /\ history[j].rsvp_pre.exists
        /\ history[j].rsvp_pre.response = "no"
        /\ history[j].post.status = "closed"
        /\ history[j].remaining_slots = 0

\* the sockets that the running send_personal_message call of task t has
\* sent to or is sending to
Attempted(t) == t.good \cup t.bad \cup (IF t.pc = "in_send" THEN {t.cur} ELSE {})

\* the loop of the running call goes over its snapshot: every socket of the
\* snapshot is sent to, being sent to, or still to come, and none is two of
\* these
IteratesSnapshot(t) ==
    /\ Attempted(t) \cup t.pending = t.snap
    /\ t.good \cap t.bad = {}
    /\ t.pending \cap Attempted(t) = {}
    /\ t.pc = "in_send" => t.cur \notin t.good \cup t.bad
    /\ t.ok = Cardinality(t.good)

\* a call that returned attempted exactly the sockets of its snapshot,
\* each once
WentOverSnapshot(call) ==
    /\ call.good \cup call.bad = call.snap
    /\ call.good \cap call.bad = {}
    /\ call.ok = Cardinality(call.good)

\* task d enters send_personal_message in this step
TakesSnapshot(d) == tasks[d].pc = "next" /\ tasks'[d] # tasks[d]

\* C34: send_personal_message works on a snapshot.  The set it goes over is
\* the set registered for the contact at the instant the call is entered;
\* from then on the sockets attempted, being attempted and still to come
\* are exactly that set, each socket in one of the three only, whatever
\* connects and disconnects meanwhile, and a step of a websocket endpoint
\* changes nothing of the dispatch; so a socket registered while the call
\* is suspended on a send is not sent the event by that call.
C34_SendsToSnapshot ==
    /\ [](\A d \in Tasks :
              /\ IteratesSnapshot(tasks[d])
              /\ \A n \in 1..Len(tasks[d].log) : WentOverSnapshot(tasks[d].log[n]))
    /\ [][\A d \in Tasks :
              /\ TakesSnapshot(d) =>
                     tasks'[d].snap = (IF tasks'[d].cid \in DOMAIN active
                                       THEN active[tasks'[d].cid] ELSE {})
              /\ ~TakesSnapshot(d) => tasks'[d].snap = tasks[d].snap
              /\ ep' # ep => tasks' = tasks]_vars

\* the call is suspended on its send to the only socket of its snapshot,
\* and meanwhile a second socket was registered for the same contact and
\* the first one was unregistered by its endpoint
C34_Witness ==
    \E d \in Tasks : \E ws, other \in Conns :
        /\ ws # other
        /\ tasks[d].pc = "in_send"
        /\ tasks[d].cur = ws
        /\ tasks[d].snap = {ws}
        /\ tasks[d].pending = {}
        /\ tasks[d].cid \in DOMAIN active
        /\ active[tasks[d].cid] = {other}
        /\ unreg[ws] = {Endpoint}

\* _tx over these snapshots goes into the branch "if accepted_count >=
\* capacity" of a "yes" on an open campaign: it closes the campaign and
\* rejects the caller
TakesFullBranch(camp, prev, response) ==
    /\ camp.status = "open"
    /\ response = "yes"
    /\ ~(prev.exists /\ prev.response = "yes")
    /\ camp.accepted_count >= camp.capacity

\* C35: in every state reached through create_campaign and rsvp_campaign
\* alone, an open campaign has accepted_count < capacity and a closed one
\* has accepted_count = capacity; so no run of _tx, neither one that
\* commits nor one that is rolled back and run again, takes the branch
\* that closes a full open campaign and rejects the "yes".
C35_OpenHasRoom ==
    /\ \A c \in CampaignIds :
           campaigns[c].exists =>
               /\ campaigns[c].status \in {"open", "closed"}
               /\ campaigns[c].status = "open" =>
                      campaigns[c].accepted_count < campaigns[c].capacity
               /\ campaigns[c].status = "closed" =>
                      campaigns[c].accepted_count = campaigns[c].capacity
    /\ \A t \in BagToSet(tx) :
           t.pc = "commit" =>
               ~TakesFullBranch(t.camp_snap, t.rsvp_snap, t.response)
    /\ \A i \in 1..Len(history) :
           Returned(history[i]) =>
               /\ ~TakesFullBranch(history[i].pre, history[i].rsvp_pre,
                                   history[i].response)
               /\ (history[i].response = "yes" /\ ~history[i].accepted) =>
                      history[i].pre.status = "closed"

\* a "yes" read the campaign open with its last slot free, another "yes"
\* took the slot and closed the campaign meanwhile, and a "yes" was
\* rejected on the closed campaign
C35_Witness ==
    /\ \E t \in BagToSet(tx) :
           /\ t.pc = "commit"
           /\ t.response = "yes"
           /\ t.camp_snap.status = "open"
           /\ campaigns[t.campaign_id].status = "closed"
           /\ campaigns[t.campaign_id].accepted_count
                  = campaigns[t.campaign_id].capacity
    /\ \E i \in 1..Len(history) :
           /\ Returned(history[i])
           /\ history[i].response = "yes"
           /\ ~history[i].accepted
           /\ history[i].pre.status = "closed"

\* C36: every result that rsvp_campaign returns describes the state that
\* its own transaction left behind: remaining_slots is capacity -
\* accepted_count of that state and is never negative, status is the stored
\* status of that state, and accepted = true implies that the caller's RSVP
\* record is "yes" in that state.
C36_ResultDescribesPostState ==
    \A i \in 1..Len(history) :
        LET e == history[i]
        IN  Returned(e) =>
                /\ e.remaining_slots = e.post.capacity - e.post.accepted_count
                /\ e.remaining_slots >= 0
                /\ e.status = e.post.status
                /\ e.accepted =>
                       /\ e.rsvp_post.exists
                       /\ e.rsvp_post.response = "yes"

\* the result of an accepted "yes" that closed the campaign and the result
\* of a call on the closed campaign have been returned, and a call of the
\* behaviour returned after a conflict
C36_Witness ==
    /\ Overlapped
    /\ \E i \in 1..Len(history) :
           /\ Returned(history[i]) /\ history[i].accepted
           /\ history[i].pre.status = "open"
           /\ history[i].post.status = "closed"
    /\ \E i \in 1..Len(history) :
           /\ Returned(history[i])
           /\ history[i].pre.status = "closed"

\* the contacts whose RSVP record of campaign c is "yes"
YesRecords(c) ==
    {r \in Recipients : rsvps[c][r].exists /\ rsvps[c][r].response = "yes"}

\* C37: accepted_count never decreases, whatever rsvp_campaign calls run,
\* and in every reachable state the number of RSVP records of a campaign
\* whose response is "yes" is at most its accepted_count (it is smaller
\* after a contact changed its "yes" to "no").
C37_CountMonotone ==
    /\ [](\A c \in CampaignIds :
              campaigns[c].exists =>
                  Cardinality(YesRecords(c)) <= campaigns[c].accepted_count)
    /\ [][\A c \in CampaignIds :
              campaigns[c].exists =>
                  /\ campaigns'[c].exists
                  /\ campaigns'[c].accepted_count >= campaigns[c].accepted_count]_vars

\* a contact changed its accepted "yes" to "no": no record is "yes" and the
\* slot is still counted
C37_Witness ==
    \E c \in CampaignIds :
        /\ campaigns[c].exists
        /\ campaigns[c].accepted_count = 1
        /\ YesRecords(c) = {}
        /\ \E i \in 1..Len(history) :
               /\ NoOnOpen(history[i])
               /\ history[i].rsvp_pre.exists
               /\ history[i].rsvp_pre.response = "yes"

\* disconnect(cid, ws) completes in this step
Unregisters(ws) == unreg'[ws] # unreg[ws]

\* C38: disconnect is idempotent and local.  In every reachable registry
\* and for every contact id and socket, disconnect of a socket that is not
\* in the set of the contact (never registered, removed already, or
\* registered under another contact) leaves the registry as it is,
\* disconnect changes the set of no other contact, and a second disconnect
\* changes nothing more.  In every step in which a disconnect of a socket
\* completes, by its endpoint or by a dispatch whose send failed, the
\* socket leaves the set of its contact and no other set changes; the
\* later of the two disconnects of one socket leaves the registry
\* unchanged, whichever it is.
C38_UnregisterIdempotentLocal ==
    /\ [](\A cid \in WsContacts, ws \in Conns :
              LET after == Disconnect(active, cid, ws)
              IN  /\ ws \notin Sockets(active, cid) => after = active
                  /\ \A k \in WsContacts \ {cid} :
                         Sockets(after, k) = Sockets(active, k)
                  /\ Sockets(after, cid) = Sockets(active, cid) \ {ws}
                  /\ Disconnect(after, cid, ws) = after)
    /\ [][\A ws \in Conns :
              Unregisters(ws) =>
                  /\ \A k \in WsContacts :
                         Sockets(active', k) =
                             IF k = owner[ws] THEN Sockets(active, k) \ {ws}
                             ELSE Sockets(active, k)
                  /\ unreg[ws] # {} => active' = active]_vars

\* the endpoint of a socket and a dispatch whose send to it failed have
\* both disconnected it, while a socket of another contact stays registered
C38_Witness ==
    \E ws, other \in Conns : \E d \in Tasks :
        /\ ws # other
        /\ Endpoint \in unreg[ws]
        /\ Caller(d, 1) \in unreg[ws]
        /\ owner[other] # owner[ws]
        /\ Registered(other)
        /\ ~Registered(ws)

\* disconnect(owner[ws], ws) has completed
Unregistered(ws) == unreg[ws] # {}

\* the loop of task d begins its send to ws in this step
StartsSendOn(d, ws) ==
    /\ tasks'[d].pc = "in_send"
    /\ tasks'[d].cur = ws
    /\ ~(tasks[d].pc = "in_send" /\ tasks[d].cur = ws)

\* C39: a send_personal_message call that takes its snapshot after
\* disconnect(cid, ws) has completed never attempts a send on ws: the
\* snapshot taken in a step holds no socket whose disconnect completed
\* before the step, and every send is to a socket of the snapshot of its
\* call.  A send to a socket that is unregistered already is begun only by
\* a call that took its snapshot in an earlier step, and holds the socket
\* in it.
C39_NoSendAfterUnregister ==
    /\ [](\A d \in Tasks :
              tasks[d].pc = "in_send" => tasks[d].cur \in tasks[d].snap)
    /\ [][\A d \in Tasks :
              /\ TakesSnapshot(d) =>
                     \A ws \in tasks'[d].snap : ~Unregistered(ws)
              /\ \A ws \in Conns :
                     (StartsSendOn(d, ws) /\ Unregistered(ws)) =>
                         /\ ~TakesSnapshot(d)
                         /\ ws \in tasks[d].snap
                         /\ tasks'[d].snap = tasks[d].snap]_vars

\* rsvp_endpoint notifies the same contact twice.  The first call failed on
\* a socket and unregistered it; the second call took its snapshot after
\* that, without the socket, and is suspended on its send to the other
\* socket, which its endpoint has unregistered meanwhile.
C39_Witness ==
    \E d \in Tasks : \E ws, other \in Conns :
        /\ ws # other
        /\ Len(tasks[d].log) = 1
        /\ tasks[d].log[1].bad = {ws}
        /\ tasks[d].log[1].cid = tasks[d].cid
        /\ Caller(d, 1) \in unreg[ws]
        /\ tasks[d].pc = "in_send"
        /\ tasks[d].snap = {other}
        /\ tasks[d].cur = other
        /\ unreg[other] = {Endpoint}

=============================================================================
